---------------------------- MODULE Spec2Model ----------------------------
(***************************************************************************)
(* Message queue and delivery engine of pico-lorawan-temperature           *)
(* (src/src/temperature_led/main.c).                                       *)
(*                                                                         *)
(* Two execution contexts share the pending list (message_queue) and the   *)
(* free list (free_queue):                                                 *)
(*   - the main context: main -> sync_time(true) -> service_messages,      *)
(*     which calls create_message_entry and transfer_data;                 *)
(*   - the interrupt context: handle_gpio_irqs (create_message_entry with  *)
(*     guaranteed delivery) and the repeating-timer callback               *)
(*     scheduled_daily_tasks, the callbacks of setup_interrupts.           *)
(* An interrupt handler runs to completion between two steps of the main   *)
(* context, and never while the main context is inside a critical section  *)
(* (critical_section_enter_blocking disables interrupts).                  *)
(*                                                                         *)
(* main() has its call of setup_interrupts in a comment (lines 944-945)    *)
(* and setup_interrupts has the timer registration in a comment (lines     *)
(* 867-872).  The model runs both callbacks once main() has reached        *)
(* service_messages, which is where that call stands: the two critical     *)
(* sections of the source exist for this interrupt context.                *)
(*                                                                         *)
(* Slots are numbered 1..MESSAGE_QUEUE_SIZE and NULL is 0.  A slot keeps   *)
(* its fields when it is released, as the C memory does.                   *)
(***************************************************************************)
EXTENDS Integers, Sequences, FiniteSets, TLC

(***************************************************************************)
(* Bounds of the model and program constants                               *)
(***************************************************************************)

\* Pool capacity.  main.c:38 sets 100; the model uses a small pool.
MESSAGE_QUEUE_SIZE == 2

\* The monotonic clock is counted in units of MESSAGE_TIMEOUT_US (600 s) and
\* stops advancing at MaxNow.
MaxNow == 2

MESSAGE_VERSION == 0

\* main.c:42, in units of 600 s.
MESSAGE_TIMEOUT_US == 1

\* main.c:40, in units of 600 s (86400 s).
BOOT_TIME_OFFSET_US == 144

\* main.c:478: "if (failed_send_packet_count > 5)".
FAILED_SEND_LIMIT == 5

\* main.c:281-282: content is cut to 7 bytes.
MAX_CONTENT_LENGTH == 7

\* main.c:608: the system (time sync) port.
SYSTEM_PORT == 222

NULL == 0

Slots == 1..MESSAGE_QUEUE_SIZE

(***************************************************************************)
(* C integer arithmetic                                                    *)
(***************************************************************************)

\* Conversion to int8_t (two's complement wrap, as gcc does it).
ToInt8(x) == ((x + 128) % 256) - 128

\* Conversion to int16_t.
ToInt16(x) == ((x + 32768) % 65536) - 32768

\* Conversion to uint8_t.
ToUint8(x) == x % 256

\* C's remainder: truncated towards zero, the sign of the dividend.
CRem(a, b) == IF a >= 0 THEN a % b ELSE -((-a) % b)

\* C's integer division, truncated towards zero.
CDiv(a, b) == IF a >= 0 THEN a \div b ELSE -((-a) \div b)

(***************************************************************************)
(* Calendar engine                                                         *)
(***************************************************************************)

is_leap_year(year) ==
    \/ (CRem(year, 4) = 0 /\ CRem(year, 100) # 0)
    \/ CRem(year, 400) = 0

time_component_limits_min == <<0, 0, 0, 1, 1>>

getTimeComponentLimitMin(component_number) ==
    time_component_limits_min[component_number + 1]

time_component_limits_max == <<60, 60, 24, 31, 12>>

time_component_month_limits_max == <<31, 28, 31, 30, 31, 30, 31, 31, 30, 31, 30, 31>>

getTimeComponentLimitMax(component_number, month, year) ==
    IF component_number = 3
    THEN IF month = 2
         THEN IF is_leap_year(year)
              THEN ToInt8(time_component_month_limits_max[2] + 1)
              ELSE time_component_month_limits_max[2]
         ELSE IF month \in 1..12
              THEN time_component_month_limits_max[month]
              ELSE 0 \* a read outside the 12-entry table
    ELSE time_component_limits_max[component_number + 1]

month_key == <<1, 4, 4, 0, 2, 5, 0, 3, 6, 1, 4, 6>>

calculate_dow(day, month, year) ==
    LET key   == IF month \in 1..12 THEN month_key[month] ELSE 0
        leap  == IF (month = 1 \/ month = 2) /\ is_leap_year(year) THEN -1 ELSE 0
        d0    == ToInt8(day + key + leap - 1 - 1)
        yy    == ToInt16(CRem(year, 100))
        d1    == ToInt8(d0 + yy + CDiv(yy, 4))
    IN  ToInt8(CRem(d1, 7))

\* pico-sdk's rtc_set_datetime refuses a datetime that valid_datetime rejects
\* and leaves the clock as it was.
valid_datetime(t) ==
    /\ t.year \in 0..4095
    /\ t.month \in 1..12
    /\ t.day \in 1..31
    /\ t.dotw \in 0..6
    /\ t.hour \in 0..23
    /\ t.min \in 0..59
    /\ t.sec \in 0..59

rtc_set_datetime(old, t) == IF valid_datetime(t) THEN t ELSE old

\* The five components the normalisation loop walks, least significant first.
Component(t, i) ==
    CASE i = 0 -> t.sec
      [] i = 1 -> t.min
      [] i = 2 -> t.hour
      [] i = 3 -> t.day
      [] i = 4 -> t.month

SetComponent(t, i, v) ==
    CASE i = 0 -> [t EXCEPT !.sec = v]
      [] i = 1 -> [t EXCEPT !.min = v]
      [] i = 2 -> [t EXCEPT !.hour = v]
      [] i = 3 -> [t EXCEPT !.day = v]
      [] i = 4 -> [t EXCEPT !.month = v]

\* (*time_components[i+1])-- / ++ for i < 4, current_time.year-- / ++ for i = 4.
AdjustCoarser(t, i, delta) ==
    IF i < 4
    THEN SetComponent(t, i + 1, ToInt8(Component(t, i + 1) + delta))
    ELSE [t EXCEPT !.year = ToInt16(t.year + delta)]

\* The loop body with > in place of >= in the test of line 431: a component
\* that stands exactly at its limit is not carried.  C18 tells it from the
\* source's loop body.
NormalizeStepAboveLimit(t, i) ==
    LET lmin == getTimeComponentLimitMin(i)
        lmax == getTimeComponentLimitMax(i, t.month, t.year)
        v    == Component(t, i)
    IN  IF v < lmin
        THEN LET t1 == AdjustCoarser(t, i, -1)
             IN  SetComponent(t1, i, ToInt8(Component(t1, i) + lmax))
        ELSE IF v > lmax + lmin
        THEN LET t1 == AdjustCoarser(t, i, 1)
             IN  SetComponent(t1, i, ToInt8(Component(t1, i) - lmax))
        ELSE t

\* One pass of the loop body of sync_time_on_timestamp for component i.
NormalizeStep(t, i) ==
    LET lmin == getTimeComponentLimitMin(i)
        lmax == getTimeComponentLimitMax(i, t.month, t.year)
        v    == Component(t, i)
    IN  IF v < lmin
        THEN LET t1 == AdjustCoarser(t, i, -1)
             IN  SetComponent(t1, i, ToInt8(Component(t1, i) + lmax))
        ELSE IF v >= lmax + lmin
        THEN LET t1 == AdjustCoarser(t, i, 1)
             IN  SetComponent(t1, i, ToInt8(Component(t1, i) - lmax))
        ELSE t

\* The same pass with the limit of line 426 given: what the pass does with
\* whatever the read of the days-per-month table has returned.
NormalizeWithLimit(t, i, lmax) ==
    LET lmin == getTimeComponentLimitMin(i)
        v    == Component(t, i)
    IN  IF v < lmin
        THEN LET t1 == AdjustCoarser(t, i, -1)
             IN  SetComponent(t1, i, ToInt8(Component(t1, i) + lmax))
        ELSE IF v >= lmax + lmin
        THEN LET t1 == AdjustCoarser(t, i, 1)
             IN  SetComponent(t1, i, ToInt8(Component(t1, i) - lmax))
        ELSE t

\* time_component_month_limits_max[month - 1] is read for component 3 only;
\* with a month outside 1..12 the read is outside the array, and returns
\* whatever int8_t lies there.
OutsideMonthTable(i, month) == i = 3 /\ month \notin 1..12

Int8Values == -128..127

RECURSIVE Normalize(_, _)
Normalize(t, i) == IF i >= 5 THEN t ELSE Normalize(NormalizeStep(t, i), i + 1)

\* Lines 404-413: payload is receive_buffer[4..10] as received (biased by
\* 128); each byte less 128 is added to its component and dotw is cleared.
AddOffsets(t, payload) ==
    LET b(i) == ToUint8(payload[i] - 128)
    IN  [year  |-> ToInt16(t.year + (b(1) * 100) + b(2)),
         month |-> ToInt8(t.month + b(3)),
         day   |-> ToInt8(t.day + b(4)),
         hour  |-> ToInt8(t.hour + b(5)),
         min   |-> ToInt8(t.min + b(6)),
         sec   |-> ToInt8(t.sec + b(7)),
         dotw  |-> 0]

\* Line 439.
WithDow(t) == [t EXCEPT !.dotw = calculate_dow(t.day, t.month, t.year)]

\* The datetime sync_time_on_timestamp hands to rtc_set_datetime.
SyncedDatetime(t, payload) == WithDow(Normalize(AddOffsets(t, payload), 0))

sync_time_on_timestamp(t, payload) ==
    rtc_set_datetime(t, SyncedDatetime(t, payload))

(***************************************************************************)
(* Header codec                                                            *)
(***************************************************************************)

create_message_timestamp(t) ==
    (t.dotw * 131072) + (t.hour * 3600) + (t.min * 60) + t.sec

\* The header word create_message_entry stores (lines 299-304).
EncodeHeader(timestamp, guaranteed_delivery, type, content_length) ==
    ((MESSAGE_VERSION % 8) * 536870912)
    + ((timestamp % 1048576) * 512)
    + ((IF guaranteed_delivery THEN 1 ELSE 0) * 256)
    + ((type % 16) * 16)
    + (content_length % 16)

\* A 32-bit word as its two 16-bit halves: with the top bit set it is beyond
\* the integers the checker computes with.
WordValue(word) == (word.high * 65536) + word.low

\* The expression of lines 299-304 with the timestamp shifted by 8 bits
\* instead of 9: its lowest bit shares a position with the guaranteed flag.
\* C14 tells it from the source's expression.
HeaderWordTimestampShift8(version, timestamp, guaranteed_delivery, type, content_length) ==
    [high |-> ((version % 8) * 8192) + ((timestamp % 1048576) \div 256),
     low  |-> (((timestamp % 256) * 256)
               + ((IF guaranteed_delivery THEN 1 ELSE 0) * 256)
               + ((type % 16) * 16)
               + (content_length % 16)) % 65536]

\* The expression of lines 299-304 as a function of the version it is compiled
\* with.  The fields occupy disjoint bits, so the bitwise OR is a sum: the
\* version and the upper 13 bits of the timestamp make the high half, the
\* lower 7 bits of the timestamp and the other fields the low half.
HeaderWord(version, timestamp, guaranteed_delivery, type, content_length) ==
    [high |-> ((version % 8) * 8192) + ((timestamp % 1048576) \div 128),
     low  |-> ((timestamp % 128) * 512)
              + ((IF guaranteed_delivery THEN 1 ELSE 0) * 256)
              + ((type % 16) * 16)
              + (content_length % 16)]

\* The header as it travels: lorawan_send_unconfirmed is handed the entry's
\* memory (line 532), so the word goes out least significant byte first.
HeaderBytes(word) ==
    [i \in 0..3 |-> CASE i = 0 -> word.low % 256
                     [] i = 1 -> word.low \div 256
                     [] i = 2 -> word.high % 256
                     [] i = 3 -> word.high \div 256]

\* Lines 591-595: the word transfer_data assembles from receive_buffer[0..3].
receive_header(receive_buffer) ==
    [high |-> ((receive_buffer[3] * 256) + receive_buffer[2]) % 65536,
     low  |-> ((receive_buffer[1] * 256) + receive_buffer[0]) % 65536]

\* Lines 596-599 on the halves of the word.
receive_version(word) == (word.high \div 8192) % 8
receive_timestamp(word) == ((word.high % 8192) * 128) + (word.low \div 512)
receive_guaranteed_delivery(word) == ((word.low \div 256) % 2) = 1
receive_type(word) == (word.low \div 16) % 16

\* Line 601: the two parts of a timestamp.
TimestampDow(timestamp) == timestamp \div 131072
TimestampTime(timestamp) == timestamp % 131072

\* The fields transfer_data reads from a received header (lines 596-599).
HeaderVersion(h) == (h \div 536870912) % 8
HeaderTimestamp(h) == (h \div 512) % 1048576
HeaderGuaranteed(h) == ((h \div 256) % 2) = 1
HeaderType(h) == (h \div 16) % 16


(***************************************************************************)
(* Linked lists                                                            *)
(***************************************************************************)

RECURSIVE Walk(_, _, _)
Walk(nxt, p, fuel) ==
    IF p = NULL \/ fuel = 0 THEN <<>> ELSE <<p>> \o Walk(nxt, nxt[p], fuel - 1)

\* The slots met walking from head by next pointers; longer than the pool
\* exactly when the walk never reaches NULL.
Chain(nxt, head) == Walk(nxt, head, Len(nxt) + 1)

Cyclic(nxt, head) == Len(Chain(nxt, head)) > Len(nxt)

Members(nxt, head) == {Chain(nxt, head)[i] : i \in 1..Len(Chain(nxt, head))}

\* Positions of slot m in a chain.
Positions(ch, m) == {i \in 1..Len(ch) : ch[i] = m}

FirstPosition(ch, m) == CHOOSE i \in Positions(ch, m) : \A j \in Positions(ch, m) : i <= j

(***************************************************************************)
(* Datagrams of the radio stack                                            *)
(***************************************************************************)

\* receive_buffer[4..10] of a time-sync response, each byte biased by 128:
\* year hundreds, year ones, month, day, hour, minute, second.
ZeroOffset == <<128, 128, 128, 128, 128, 128, 128>>
YearOffset == <<128, 154, 128, 128, 128, 128, 128>>
DayOffset  == <<128, 128, 128, 133, 128, 128, 128>>

NoDatagram == [port |-> -1, header |-> 0, payload |-> ZeroOffset]

\* A datagram on a port the device does not use.
UnknownDatagram == [port |-> 5, header |-> 0, payload |-> ZeroOffset]

\* sync_time_on_timestamp's local datetime while the function is not running.
NoTime ==
    [year |-> 0, month |-> 0, day |-> 0, dotw |-> 0, hour |-> 0, min |-> 0, sec |-> 0]

\* The clock sync_time(true) sets (lines 679-687).
InitialTime ==
    [year |-> 2000, month |-> 1, day |-> 1, dotw |-> 6, hour |-> 0, min |-> 0, sec |-> 0]

\* A time-sync response left at the gateway by the previous session
\* (lines 568-574).
StaleDatagram ==
    [port |-> SYSTEM_PORT,
     header |-> EncodeHeader(create_message_timestamp(InitialTime), FALSE, 0, MAX_CONTENT_LENGTH),
     payload |-> YearOffset]

\* A slot whose memory malloc returned and nothing has written yet.
FreshSlot ==
    [used |-> FALSE, header |-> 0, f_port |-> 0, guaranteed_delivery |-> FALSE,
     type |-> 0, content_length |-> 0, send_time |-> 0, dow |-> 0]

(***************************************************************************)
(* State                                                                   *)
(***************************************************************************)

VARIABLES
    next,                          \* message_entry.next of every slot
    message_queue,                 \* head of the pending list
    free_queue,                    \* head of the free list
    slot,                          \* the other fields of every slot
    message_queue_cri_sec,         \* the main context is inside this critical section
    free_queue_cri_sec,            \* the main context is inside this critical section
    rtc,                           \* the real-time clock's datetime
    now,                           \* the monotonic clock, in units of 600 s
    skip_first_received_messages,
    failed_send_packet_count,
    phase,                         \* where main() is: "sync1", "sync2" (sync_time(true)) or "service"
    pc,                            \* the main context's position
    message,                       \* transfer_data's message
    next_message,                  \* transfer_data's next_message
    td_result,                     \* transfer_data's return value
    arg_message,                   \* the message of the create/cleanup call in progress
    cleanup_ret,                   \* where the cleanup_message call in progress returns to
    receive,                       \* transfer_data's receive_buffer and receive_port
    current_time,                  \* sync_time_on_timestamp's local datetime
    machine_reset_calls,           \* the callers of machine_reset, in order
    daily_task_runs,               \* parity of the calls of scheduled_daily_tasks
    consecutive_failures           \* failed transmits since the last successful one

vars ==
    <<next, message_queue, free_queue, slot, message_queue_cri_sec, free_queue_cri_sec,
      rtc, now, skip_first_received_messages, failed_send_packet_count, phase, pc,
      message, next_message, td_result, arg_message, cleanup_ret, receive,
      current_time, machine_reset_calls, daily_task_runs, consecutive_failures>>

listVars == <<next, message_queue, free_queue>>
lockVars == <<message_queue_cri_sec, free_queue_cri_sec>>
tdLocals == <<message, next_message, td_result>>
callVars == <<arg_message, cleanup_ret>>
envVars  == <<now, daily_task_runs>>

Pending == Members(next, message_queue)
Free == Members(next, free_queue)

Halted == pc \in {"reset", "fault", "hang"}

\* main (lines 908-914) pushes the slots one by one on the free list;
\* sync_time(true) sets the clock and enters its loop.
Init ==
    /\ next = [s \in Slots |-> s - 1]
    /\ message_queue = NULL
    /\ free_queue = MESSAGE_QUEUE_SIZE
    /\ slot = [s \in Slots |-> FreshSlot]
    /\ message_queue_cri_sec = FALSE
    /\ free_queue_cri_sec = FALSE
    /\ rtc = InitialTime
    /\ now = 0
    /\ skip_first_received_messages = TRUE
    /\ failed_send_packet_count = 0
    /\ phase = "sync1"
    /\ pc = "create"
    /\ message = NULL
    /\ next_message = NULL
    /\ td_result = TRUE
    /\ arg_message = NULL
    /\ cleanup_ret = "none"
    /\ receive = NoDatagram
    /\ current_time = NoTime
    /\ machine_reset_calls = <<>>
    /\ daily_task_runs = 0
    /\ consecutive_failures = 0

(***************************************************************************)
(* machine_reset and the other ways the machine stops                      *)
(***************************************************************************)

\* machine_reset (lines 156-163) never returns: the machine stops until the
\* watchdog reboots it.
machine_reset(caller) ==
    /\ machine_reset_calls' = Append(machine_reset_calls, caller)
    /\ pc' = "reset"

\* get_free_entry_count (lines 218-228), the last statement of
\* create_message_entry and cleanup_message, never returns when the free list
\* it walks is cyclic.
AfterFreeCount(nxt, head, to) == IF Cyclic(nxt, head) THEN "hang" ELSE to

(***************************************************************************)
(* create_message_entry                                                    *)
(***************************************************************************)

\* The arguments of the create_message_entry call main() makes in each phase:
\* sync_time(true) (lines 702, 724) and service_messages (line 783).
CreatePort == IF phase = "service" THEN 1 ELSE SYSTEM_PORT
CreateType == IF phase = "service" THEN 1 ELSE 0
CreateLength == IF phase = "service" THEN 1 ELSE 11

\* Lines 281-283.
TruncatedLength(content_length) ==
    IF content_length > MAX_CONTENT_LENGTH THEN MAX_CONTENT_LENGTH ELSE content_length

\* Lines 299-312: the fields create_message_entry writes.
FilledSlot(f_port, guaranteed_delivery, type, content_length) ==
    LET timestamp == create_message_timestamp(rtc)
        len == TruncatedLength(content_length)
    IN  [used |-> TRUE,
         header |-> EncodeHeader(timestamp, guaranteed_delivery, type, len),
         f_port |-> f_port,
         guaranteed_delivery |-> guaranteed_delivery,
         type |-> type,
         content_length |-> len,
         send_time |-> 0,
         dow |-> (timestamp \div 131072) % 8]

\* create_message_entry without the test of line 285: a call with an empty
\* free list goes on to the pop.  C6 tells it from the source's function.
CreateEntryWithoutEmptyTest ==
    /\ pc = "create"
    /\ pc' = "create_pop"
    /\ UNCHANGED <<listVars, slot, lockVars, rtc, current_time, skip_first_received_messages,
                   failed_send_packet_count, phase, tdLocals, callVars, receive,
                   envVars, machine_reset_calls, consecutive_failures>>

\* Lines 279-292: the emptiness test, outside any critical section.
CreateEntry ==
    /\ pc = "create"
    /\ IF free_queue = NULL
       THEN /\ machine_reset("create_message_entry")
       ELSE /\ pc' = "create_pop"
            /\ UNCHANGED machine_reset_calls
    /\ UNCHANGED <<listVars, slot, lockVars, rtc, current_time, skip_first_received_messages,
                   failed_send_packet_count, phase, tdLocals, callVars, receive,
                   envVars, consecutive_failures>>

\* Lines 294-296: pop the free list's head.  With the free list emptied since
\* the test, free_queue->next reads through NULL.
CreatePop ==
    /\ pc = "create_pop"
    /\ IF free_queue = NULL
       THEN /\ pc' = "fault"
            /\ free_queue_cri_sec' = TRUE
            /\ UNCHANGED <<listVars, message_queue_cri_sec, arg_message>>
       ELSE /\ arg_message' = free_queue
            /\ free_queue' = next[free_queue]
            /\ free_queue_cri_sec' = TRUE
            /\ pc' = "create_fq_exit"
            /\ UNCHANGED <<next, message_queue, message_queue_cri_sec>>
    /\ UNCHANGED <<slot, rtc, current_time, skip_first_received_messages, failed_send_packet_count,
                   phase, tdLocals, cleanup_ret, receive, envVars, machine_reset_calls,
                   consecutive_failures>>

\* Line 297.
CreateFqExit ==
    /\ pc = "create_fq_exit"
    /\ free_queue_cri_sec' = FALSE
    /\ pc' = "create_fill"
    /\ UNCHANGED <<listVars, slot, message_queue_cri_sec, rtc, current_time,
                   skip_first_received_messages, failed_send_packet_count, phase,
                   tdLocals, callVars, receive, envVars, machine_reset_calls,
                   consecutive_failures>>

\* Lines 299-318: fill the slot, enter the pending list's critical section and
\* link the slot at the head.
CreateFill ==
    /\ pc = "create_fill"
    /\ slot' = [slot EXCEPT ![arg_message] =
                    FilledSlot(CreatePort, FALSE, CreateType, CreateLength)]
    /\ message_queue_cri_sec' = TRUE
    /\ next' = [next EXCEPT ![arg_message] = message_queue]
    /\ message_queue' = arg_message
    /\ pc' = "create_mq_exit"
    /\ UNCHANGED <<free_queue, free_queue_cri_sec, rtc, current_time, skip_first_received_messages,
                   failed_send_packet_count, phase, tdLocals, callVars, receive,
                   envVars, machine_reset_calls, consecutive_failures>>

\* Lines 319-324, and the return into sync_time (line 709, 725) or
\* service_messages (line 785).
CreateMqExit ==
    /\ pc = "create_mq_exit"
    /\ message_queue_cri_sec' = FALSE
    /\ arg_message' = NULL
    /\ pc' = AfterFreeCount(next, free_queue,
                            IF phase = "service" THEN "service" ELSE "td_entry")
    /\ UNCHANGED <<listVars, slot, free_queue_cri_sec, rtc, current_time,
                   skip_first_received_messages, failed_send_packet_count, phase,
                   tdLocals, cleanup_ret, receive, envVars, machine_reset_calls,
                   consecutive_failures>>

(***************************************************************************)
(* cleanup_message                                                         *)
(***************************************************************************)

\* Lines 236-254 on a pending list that holds the message: the lists after
\* the unlink.
UnlinkedNext(m) ==
    LET ch == Chain(next, message_queue)
        i  == FirstPosition(ch, m)
    IN  IF m = message_queue THEN next ELSE [next EXCEPT ![ch[i - 1]] = next[m]]

UnlinkedHead(m) == IF m = message_queue THEN next[m] ELSE message_queue

\* Lines 235-254: enter the pending list's critical section and unlink.
\*   - the message is the head, or is found by the walk: it is unlinked;
\*   - the pending list is empty: message_queue->next reads through NULL, and
\*     the call either faults or goes on as if the walk had found nothing;
\*   - the walk ends without finding it: the failure is printed;
\*   - the walk never ends (a cyclic list without the message).
CleanupUnlink ==
    /\ pc = "cleanup"
    /\ LET m == arg_message IN
       \/ /\ m \in Pending
          /\ next' = UnlinkedNext(m)
          /\ message_queue' = UnlinkedHead(m)
          /\ message_queue_cri_sec' = TRUE
          /\ pc' = "cleanup_mq_exit"
       \/ /\ m \notin Pending
          /\ message_queue = NULL
          /\ pc' \in {"fault", "cleanup_mq_exit"}
          /\ message_queue_cri_sec' = TRUE
          /\ UNCHANGED <<next, message_queue>>
       \/ /\ m \notin Pending
          /\ message_queue # NULL
          /\ pc' = IF Cyclic(next, message_queue) THEN "hang" ELSE "cleanup_mq_exit"
          /\ message_queue_cri_sec' = TRUE
          /\ UNCHANGED <<next, message_queue>>
    /\ UNCHANGED <<free_queue, slot, free_queue_cri_sec, rtc, current_time,
                   skip_first_received_messages, failed_send_packet_count, phase,
                   tdLocals, callVars, receive, envVars, machine_reset_calls,
                   consecutive_failures>>

\* (Mutant of CleanupMqExit: line 255 missing, the pending list's lock is kept
\* while the free list's lock is requested.)
CleanupMqExitKeepingLock ==
    /\ pc = "cleanup_mq_exit"
    /\ pc' = "cleanup_release"
    /\ UNCHANGED <<listVars, lockVars, slot, rtc, current_time,
                   skip_first_received_messages, failed_send_packet_count, phase,
                   tdLocals, callVars, receive, envVars, machine_reset_calls,
                   consecutive_failures>>

\* Line 255.
CleanupMqExit ==
    /\ pc = "cleanup_mq_exit"
    /\ message_queue_cri_sec' = FALSE
    /\ pc' = "cleanup_release"
    /\ UNCHANGED <<listVars, slot, free_queue_cri_sec, rtc, current_time,
                   skip_first_received_messages, failed_send_packet_count, phase,
                   tdLocals, callVars, receive, envVars, machine_reset_calls,
                   consecutive_failures>>

\* Lines 257-259: enter the free list's critical section and push the message.
CleanupRelease ==
    /\ pc = "cleanup_release"
    /\ free_queue_cri_sec' = TRUE
    /\ next' = [next EXCEPT ![arg_message] = free_queue]
    /\ free_queue' = arg_message
    /\ pc' = "cleanup_fq_exit"
    /\ UNCHANGED <<message_queue, slot, message_queue_cri_sec, rtc, current_time,
                   skip_first_received_messages, failed_send_packet_count, phase,
                   tdLocals, callVars, receive, envVars, machine_reset_calls,
                   consecutive_failures>>

\* Lines 260-265, and the return into transfer_data.
CleanupFqExit ==
    /\ pc = "cleanup_fq_exit"
    /\ free_queue_cri_sec' = FALSE
    /\ arg_message' = NULL
    /\ cleanup_ret' = "none"
    /\ pc' = AfterFreeCount(next, free_queue, cleanup_ret)
    /\ UNCHANGED <<listVars, slot, message_queue_cri_sec, rtc, current_time,
                   skip_first_received_messages, failed_send_packet_count, phase,
                   tdLocals, receive, envVars, machine_reset_calls,
                   consecutive_failures>>

(***************************************************************************)
(* match_message_by_header                                                 *)
(***************************************************************************)

\* Lines 332-335: the test of one pending message against a response.
HeaderMatches(s, receive_port, guaranteed_delivery, type, response_timestamp) ==
    /\ receive_port = slot[s].f_port
    /\ response_timestamp = HeaderTimestamp(slot[s].header)
    /\ guaranteed_delivery = slot[s].guaranteed_delivery
    /\ type = slot[s].type

\* Lines 326-343: the first pending message, head first, that matches; NULL
\* when the walk ends without one.
match_message_by_header(version, receive_port, guaranteed_delivery, type, response_timestamp) ==
    LET ch == Chain(next, message_queue)
        hits == {i \in 1..Len(ch) :
                    HeaderMatches(ch[i], receive_port, guaranteed_delivery, type,
                                  response_timestamp)}
    IN  IF hits = {} THEN NULL
        ELSE ch[CHOOSE i \in hits : \A j \in hits : i <= j]

\* The walk of match_message_by_header never ends: a cyclic pending list
\* without a match.
MatchHangs(d) ==
    /\ Cyclic(next, message_queue)
    /\ match_message_by_header(HeaderVersion(d.header), d.port, HeaderGuaranteed(d.header),
                               HeaderType(d.header), HeaderTimestamp(d.header)) = NULL

(***************************************************************************)
(* transfer_data                                                           *)
(***************************************************************************)

\* get_us_since_boot (lines 64-68).
get_us_since_boot == now + BOOT_TIME_OFFSET_US

\* (Mutant of DueValues: the test of line 502 with >= for >.)
DueValuesAtTimeout(m) ==
    IF slot[m].used
    THEN {(get_us_since_boot - slot[m].send_time) >= MESSAGE_TIMEOUT_US}
    ELSE BOOLEAN

\* Line 502.  The fields of a slot nothing has written yet are indeterminate.
DueValues(m) ==
    IF slot[m].used
    THEN {(get_us_since_boot - slot[m].send_time) > MESSAGE_TIMEOUT_US}
    ELSE BOOLEAN

GuaranteedValues(m) ==
    IF slot[m].used THEN {slot[m].guaranteed_delivery} ELSE BOOLEAN

\* Lines 476-489.
TdEntry ==
    /\ pc = "td_entry"
    /\ message' = message_queue
    /\ IF failed_send_packet_count > FAILED_SEND_LIMIT
       THEN /\ machine_reset("transfer_data")
            /\ UNCHANGED td_result
       ELSE /\ UNCHANGED machine_reset_calls
            /\ IF message_queue = NULL
               THEN pc' = "td_ret" /\ td_result' = TRUE
               ELSE pc' = "td_visit" /\ UNCHANGED td_result
    /\ UNCHANGED <<listVars, slot, lockVars, rtc, current_time, skip_first_received_messages,
                   failed_send_packet_count, phase, next_message, callVars, receive,
                   envVars, consecutive_failures>>

\* Lines 649-652: go on with next_message, or return true at the end.
Advance(to) ==
    /\ message' = to
    /\ IF to = NULL
       THEN pc' = "td_ret" /\ td_result' = TRUE
       ELSE pc' = "td_visit" /\ UNCHANGED td_result

\* Lines 491-551: capture next_message, test whether the message is due and
\* transmit it.
TdVisit ==
    /\ pc = "td_visit"
    /\ next_message' = next[message]
    /\ \E due \in DueValues(message), guaranteed \in GuaranteedValues(message),
          send_ok \in BOOLEAN :
          \/ /\ ~due
             /\ Advance(next[message])
             /\ UNCHANGED <<failed_send_packet_count, consecutive_failures, callVars>>
          \/ /\ due
             /\ ~send_ok
             /\ failed_send_packet_count' = failed_send_packet_count + 1
             /\ consecutive_failures' = consecutive_failures + 1
             /\ td_result' = FALSE
             /\ pc' = "td_ret"
             /\ UNCHANGED <<message, callVars>>
          \/ /\ due
             /\ send_ok
             /\ consecutive_failures' = 0
             /\ IF ~guaranteed
                THEN /\ arg_message' = message
                     /\ cleanup_ret' = "td_sent"
                     /\ pc' = "cleanup"
                ELSE /\ pc' = "td_sent"
                     /\ UNCHANGED callVars
             /\ UNCHANGED <<failed_send_packet_count, message, td_result>>
    /\ UNCHANGED <<listVars, slot, lockVars, rtc, current_time, skip_first_received_messages, phase,
                   receive, envVars, machine_reset_calls>>

\* Lines 553-556 without the assignment of line 554: the counter keeps its
\* value after a successful send.  C7 tells it from the source's code.
TdSentKeepingCounter ==
    /\ pc = "td_sent"
    /\ slot' = [slot EXCEPT ![message].send_time = get_us_since_boot]
    /\ pc' = "td_listen"
    /\ UNCHANGED <<listVars, lockVars, rtc, current_time, skip_first_received_messages, phase,
                   tdLocals, callVars, receive, envVars, machine_reset_calls,
                   consecutive_failures, failed_send_packet_count>>

\* Lines 553-556.
TdSent ==
    /\ pc = "td_sent"
    /\ failed_send_packet_count' = 0
    /\ slot' = [slot EXCEPT ![message].send_time = get_us_since_boot]
    /\ pc' = "td_listen"
    /\ UNCHANGED <<listVars, lockVars, rtc, current_time, skip_first_received_messages, phase,
                   tdLocals, callVars, receive, envVars, machine_reset_calls,
                   consecutive_failures>>

\* The payloads the network sends in a time-sync response, the offset between
\* its time and the time the device reported: none, or 26 years once while
\* the clock still shows the year 2000, or (with days) 5 days once while it
\* shows the first of the month.
SyncPayloads(days) ==
    {ZeroOffset}
    \cup (IF rtc.year = 2000 THEN {YearOffset} ELSE {})
    \cup (IF days /\ rtc.day = 1 THEN {DayOffset} ELSE {})

\* The uplinks transmitted so far.
Transmitted == {s \in DOMAIN slot : slot[s].used /\ slot[s].send_time # 0}

\* The responses to the uplinks transmitted so far: each echoes the header
\* and the port of its uplink.
Responses(days) ==
    {[port |-> slot[s].f_port, header |-> slot[s].header, payload |-> p] :
        s \in {x \in Transmitted : slot[x].f_port = SYSTEM_PORT}, p \in SyncPayloads(days)}
    \cup
    {[port |-> slot[s].f_port, header |-> slot[s].header, payload |-> ZeroOffset] :
        s \in {x \in Transmitted : slot[x].f_port # SYSTEM_PORT}}

\* The datagrams lorawan_receive can return: a response, the response the
\* previous session left at the gateway while the clock is not yet set, or a
\* datagram on an unknown port.
Datagrams(days) ==
    Responses(days) \cup {UnknownDatagram}
    \cup (IF rtc.year = 2000 THEN {StaleDatagram} ELSE {})

\* The receive path without the test of line 575: a datagram received during
\* the start-up window is matched and dispatched.  C10 tells it from the
\* source's code.
ReceiveWithoutDiscard(d) ==
    /\ pc = "td_listen"
    /\ LET found == match_message_by_header(
                        HeaderVersion(d.header), d.port, HeaderGuaranteed(d.header),
                        HeaderType(d.header), HeaderTimestamp(d.header))
       IN  IF MatchHangs(d)
           THEN /\ pc' = "hang"
                /\ UNCHANGED <<receive, callVars>>
           ELSE /\ receive' = d
                /\ IF found = NULL
                   THEN /\ pc' = "td_dispatch"
                        /\ UNCHANGED callVars
                   ELSE /\ arg_message' = found
                        /\ cleanup_ret' = "td_dispatch"
                        /\ pc' = "cleanup"
    /\ UNCHANGED <<listVars, slot, lockVars, rtc, current_time, skip_first_received_messages,
                   failed_send_packet_count, phase, tdLocals, now, daily_task_runs,
                   machine_reset_calls, consecutive_failures>>

\* Lines 564-604: an event arrives within the listen window and
\* lorawan_receive returns datagram d.
Receive(d) ==
    /\ pc = "td_listen"
    /\ IF skip_first_received_messages
       THEN /\ receive' = d
            /\ UNCHANGED <<pc, callVars>>
       ELSE LET found == match_message_by_header(
                             HeaderVersion(d.header), d.port, HeaderGuaranteed(d.header),
                             HeaderType(d.header), HeaderTimestamp(d.header))
            IN  /\ IF MatchHangs(d)
                   THEN /\ pc' = "hang"
                        /\ UNCHANGED <<receive, callVars>>
                   ELSE /\ receive' = d
                        /\ IF found = NULL
                           THEN /\ pc' = "td_dispatch"
                                /\ UNCHANGED callVars
                           ELSE /\ arg_message' = found
                                /\ cleanup_ret' = "td_dispatch"
                                /\ pc' = "cleanup"
    /\ UNCHANGED <<listVars, slot, lockVars, rtc, current_time, skip_first_received_messages,
                   failed_send_packet_count, phase, tdLocals, now, daily_task_runs,
                   machine_reset_calls, consecutive_failures>>

TdReceive == \E d \in Datagrams(FALSE) : Receive(d)

\* The same with the network's 5-day correction among the responses.
TdReceiveDays == \E d \in Datagrams(TRUE) : Receive(d)

\* Lines 606-639: a time-sync response sets the clock; back to listening.
TdDispatch ==
    /\ pc = "td_dispatch"
    /\ rtc' = IF receive.port = SYSTEM_PORT /\ HeaderType(receive.header) = 0
              THEN sync_time_on_timestamp(rtc, receive.payload)
              ELSE rtc
    /\ receive' = NoDatagram
    /\ pc' = "td_listen"
    /\ UNCHANGED <<current_time, listVars, slot, lockVars, skip_first_received_messages,
                   failed_send_packet_count, phase, tdLocals, callVars, envVars,
                   machine_reset_calls, consecutive_failures>>

\* Lines 640-650: the listen window times out.
TdTimeout ==
    /\ pc = "td_listen"
    /\ skip_first_received_messages' = FALSE
    /\ receive' = NoDatagram
    /\ Advance(next_message)
    /\ UNCHANGED <<listVars, slot, lockVars, rtc, current_time, failed_send_packet_count, phase,
                   next_message, callVars, envVars, machine_reset_calls,
                   consecutive_failures>>

\* The return of transfer_data into sync_time(true) (lines 709-743) or
\* service_messages (line 768).
TdReturn ==
    /\ pc = "td_ret"
    /\ message' = NULL
    /\ next_message' = NULL
    /\ td_result' = TRUE
    /\ CASE phase = "sync1" ->
               /\ phase' = IF td_result THEN "sync2" ELSE "sync1"
               /\ pc' = "create"
         [] phase = "sync2" ->
               IF td_result /\ rtc.year > 2000
               THEN phase' = "service" /\ pc' = "service"
               ELSE phase' = "sync1" /\ pc' = "create"
         [] phase = "service" ->
               /\ pc' = "service"
               /\ UNCHANGED phase
    /\ UNCHANGED <<listVars, slot, lockVars, rtc, current_time, skip_first_received_messages,
                   failed_send_packet_count, callVars, receive, envVars,
                   machine_reset_calls, consecutive_failures>>

\* service_messages (lines 753-798): a delivery cycle, or a temperature
\* reading that has come due.
Service ==
    /\ pc = "service"
    /\ pc' \in {"td_entry", "create"}
    /\ UNCHANGED <<listVars, slot, lockVars, rtc, current_time, skip_first_received_messages,
                   failed_send_packet_count, phase, tdLocals, callVars, receive,
                   envVars, machine_reset_calls, consecutive_failures>>

(***************************************************************************)
(* The interrupt context                                                   *)
(***************************************************************************)

IrqEnabled == phase = "service" /\ ~Halted /\ ~message_queue_cri_sec /\ ~free_queue_cri_sec

\* handle_gpio_irqs (lines 840-864) past its debounce test:
\* create_message_entry(1, true, 2 + gpio, &content, 1), as a whole.
HandleGpioIrqs(gpio) ==
    /\ IrqEnabled
    /\ IF free_queue = NULL
       THEN /\ machine_reset("create_message_entry")
            /\ UNCHANGED <<listVars, slot>>
       ELSE LET m == free_queue IN
            /\ free_queue' = next[m]
            /\ slot' = [slot EXCEPT ![m] = FilledSlot(1, TRUE, 2 + gpio, 1)]
            /\ next' = [next EXCEPT ![m] = message_queue]
            /\ message_queue' = m
            /\ pc' = AfterFreeCount(next', free_queue', pc)
            /\ UNCHANGED machine_reset_calls
    /\ UNCHANGED <<lockVars, rtc, current_time, skip_first_received_messages, failed_send_packet_count,
                   phase, tdLocals, callVars, receive, envVars, consecutive_failures>>

\* scheduled_daily_tasks (lines 801-837): it returns at line 803.
scheduled_daily_tasks ==
    /\ IrqEnabled
    /\ daily_task_runs' = 1 - daily_task_runs
    /\ UNCHANGED <<listVars, slot, lockVars, rtc, current_time, skip_first_received_messages,
                   failed_send_packet_count, phase, pc, tdLocals, callVars, receive,
                   now, machine_reset_calls, consecutive_failures>>

(***************************************************************************)
(* The environment                                                         *)
(***************************************************************************)

\* The monotonic clock passes a 600 s mark while the main context waits.
Tick ==
    /\ pc \in {"td_listen", "service"}
    /\ now < MaxNow
    /\ now' = now + 1
    /\ UNCHANGED <<listVars, slot, lockVars, rtc, current_time, skip_first_received_messages,
                   failed_send_packet_count, phase, pc, tdLocals, callVars, receive,
                   machine_reset_calls, daily_task_runs, consecutive_failures>>

(***************************************************************************)
(* Specification                                                           *)
(***************************************************************************)

Create == CreateEntry \/ CreatePop \/ CreateFqExit \/ CreateFill \/ CreateMqExit

Cleanup == CleanupUnlink \/ CleanupMqExit \/ CleanupRelease \/ CleanupFqExit

Transfer == TdEntry \/ TdVisit \/ TdSent \/ TdDispatch \/ TdTimeout \/ TdReturn

Next ==
    \/ Create
    \/ Cleanup
    \/ Transfer
    \/ TdReceive
    \/ Service
    \/ \E gpio \in {0, 1} : HandleGpioIrqs(gpio)
    \/ Tick

Spec == Init /\ [][Next]_vars

\* The system with the repeating timer of setup_interrupts (lines 868-871)
\* running scheduled_daily_tasks, one GPIO line and a network that also sends
\* the 5-day correction.
NextDaily ==
    \/ Create
    \/ Cleanup
    \/ Transfer
    \/ TdReceiveDays
    \/ Service
    \/ HandleGpioIrqs(0)
    \/ scheduled_daily_tasks
    \/ Tick

\* A step of TdDispatch, told by its change of pc: TdDispatch is enabled
\* exactly when pc = "td_dispatch".
DispatchStep == pc = "td_dispatch" /\ pc' = "td_listen"

\* The timer keeps firing, the main context keeps running, and the network
\* does not keep every listen window from timing out.
DailySpec ==
    /\ Init
    /\ [][NextDaily]_vars
    /\ WF_vars(scheduled_daily_tasks)
    /\ WF_vars(Create \/ Cleanup \/ TdEntry \/ TdVisit \/ TdSent \/ TdReturn \/ Service)
    /\ WF_pc(DispatchStep)
    /\ SF_vars(TdTimeout)

\* The system of Spec in which the main context keeps running and every poll
\* of the listen window returns, with an event or with a time-out; nothing
\* is assumed about which.
ListenSpec ==
    /\ Init
    /\ [][Next]_vars
    /\ WF_vars(Create \/ Cleanup \/ TdEntry \/ TdVisit \/ TdSent \/ TdReturn \/ Service)
    /\ WF_pc(DispatchStep)
    /\ WF_vars(TdReceive \/ TdTimeout)

(***************************************************************************)
(* The header codec on its own                                             *)
(***************************************************************************)

\* Every day of the week, each with a time of day around the carries of the
\* timestamp's 17-bit time part: 0, 59, 3599, 43200, 65535, 65536 and 86399
\* seconds.
CodecClocks ==
    {<<0, 0, 0, 0>>, <<1, 0, 0, 59>>, <<2, 0, 59, 59>>, <<3, 12, 0, 0>>,
     <<4, 18, 12, 15>>, <<5, 18, 12, 16>>, <<6, 23, 59, 59>>}

\* The clock create_message_timestamp reads is one of the clocks above.
CodecInit ==
    /\ next = [s \in Slots |-> s - 1]
    /\ message_queue = NULL
    /\ free_queue = MESSAGE_QUEUE_SIZE
    /\ slot = [s \in Slots |-> FreshSlot]
    /\ message_queue_cri_sec = FALSE
    /\ free_queue_cri_sec = FALSE
    /\ \E c \in CodecClocks :
          rtc = [InitialTime EXCEPT !.dotw = c[1], !.hour = c[2], !.min = c[3], !.sec = c[4]]
    /\ now = 0
    /\ skip_first_received_messages = FALSE
    /\ failed_send_packet_count = 0
    /\ phase = "codec"
    /\ pc = "create_fill"
    /\ message = NULL
    /\ next_message = NULL
    /\ td_result = TRUE
    /\ arg_message = NULL
    /\ cleanup_ret = "none"
    /\ receive = NoDatagram
    /\ current_time = NoTime
    /\ machine_reset_calls = <<>>
    /\ daily_task_runs = 0
    /\ consecutive_failures = 0

\* Lines 299-311 for the entry at the head of the free list, with the values
\* the variables hold at line 299: any version the three header bits can
\* carry, any type and any content_length of four bits.
StoreHeader(version, guaranteed_delivery, type, content_length) ==
    /\ pc = "create_fill"
    /\ phase = "codec"
    /\ LET timestamp == create_message_timestamp(rtc) IN
       slot' = [slot EXCEPT ![free_queue] =
                   [used |-> TRUE,
                    header |-> HeaderWord(version, timestamp, guaranteed_delivery,
                                          type, content_length),
                    version |-> version,
                    f_port |-> 1,
                    guaranteed_delivery |-> guaranteed_delivery,
                    type |-> type,
                    content_length |-> content_length,
                    send_time |-> 0,
                    dow |-> (timestamp \div 131072) % 8]]
    /\ message' = free_queue
    /\ pc' = "td_listen"
    /\ UNCHANGED <<listVars, lockVars, rtc, current_time, skip_first_received_messages,
                   failed_send_packet_count, phase, next_message, td_result,
                   callVars, receive, envVars, machine_reset_calls,
                   consecutive_failures>>

\* Lines 532 and 562-595: the entry goes out, the network answers with the
\* same four header bytes and transfer_data assembles receive_header.
ReceiveHeader ==
    /\ pc = "td_listen"
    /\ phase = "codec"
    /\ receive' = [port |-> slot[message].f_port,
                   header |-> receive_header(HeaderBytes(slot[message].header)),
                   payload |-> ZeroOffset]
    /\ pc' = "td_dispatch"
    /\ UNCHANGED <<listVars, slot, lockVars, rtc, current_time, skip_first_received_messages,
                   failed_send_packet_count, phase, tdLocals, callVars, envVars,
                   machine_reset_calls, consecutive_failures>>

CodecNext ==
    \/ \E version \in 0..7, guaranteed_delivery \in BOOLEAN, type \in 0..15,
          content_length \in 0..15 :
          StoreHeader(version, guaranteed_delivery, type, content_length)
    \/ ReceiveHeader

CodecSpec == CodecInit /\ [][CodecNext]_vars

(***************************************************************************)
(* sync_time_on_timestamp on its own, statement by statement                *)
(***************************************************************************)

\* The Gregorian calendar of the years 2000 to 2099, against which the
\* program's arithmetic is compared: 1 January 2000 was a Saturday.
DaysInMonth(month, year) ==
    CASE month \in {4, 6, 9, 11} -> 30
      [] month = 2 -> IF year % 4 = 0 /\ (year % 100 # 0 \/ year % 400 = 0) THEN 29 ELSE 28
      [] OTHER -> 31

\* The days from 1 January 2000 to the given date: whole years (every fourth
\* one, beginning with 2000, a day longer), whole months, days.
DaysBefore(day, month, year) ==
    LET y == year - 2000
        common == <<0, 31, 59, 90, 120, 151, 181, 212, 243, 273, 304, 334>>
    IN  (365 * y) + ((y + 3) \div 4)
        + common[month] + (IF month > 2 /\ DaysInMonth(2, year) = 29 THEN 1 ELSE 0)
        + (day - 1)

TrueDayOfWeek(day, month, year) == (6 + DaysBefore(day, month, year)) % 7

ValidDate(t) ==
    /\ t.year \in 2000..2099
    /\ t.month \in 1..12
    /\ t.day \in 1..DaysInMonth(t.month, t.year)

\* The years the clock is drawn from: the year the program starts in, a common
\* year, a leap year and the last year of the century.
CalendarYears == {2000, 2023, 2024, 2099}

ClockAt(day, month, year, hour, min, sec) ==
    [year |-> year, month |-> month, day |-> day,
     dotw |-> TrueDayOfWeek(day, month, year), hour |-> hour, min |-> min, sec |-> sec]

\* receive_buffer[4..10] of further time-sync responses: one second, half a
\* minute and a whole minute forward, one day back.
SecondOffset     == <<128, 128, 128, 128, 128, 128, 129>>
HalfMinuteOffset == <<128, 128, 128, 128, 128, 128, 158>>
MinuteOfSeconds  == <<128, 128, 128, 128, 128, 128, 188>>
DayBack          == <<128, 128, 128, 127, 128, 128, 128>>

\* Eleven months forward and eleven months back.
MonthsForward    == <<128, 128, 139, 128, 128, 128, 128>>
MonthsBack       == <<128, 128, 117, 128, 128, 128, 128>>

\* The clock and the response sync_time_on_timestamp is called with: every
\* date of the years above with an unchanged time, and days around the ends of
\* months at four times of day with each of the other offsets, and the middle
\* of three months with the offsets of eleven months.
CalendarInputs ==
    {<<ClockAt(d, m, y, 12, 30, 30), ZeroOffset>> :
        <<d, m, y>> \in {x \in (1..31) \X (1..12) \X CalendarYears :
                            x[1] <= DaysInMonth(x[2], x[3])}}
    \cup
    {<<ClockAt(x[1], x[2], x[3], t[1], t[2], t[3]), p>> :
        x \in {<<1, 3, 2023>>, <<1, 3, 2024>>, <<1, 5, 2023>>, <<1, 1, 2024>>,
               <<31, 12, 2023>>, <<1, 8, 2023>>},
        t \in {<<0, 0, 0>>, <<10, 20, 59>>, <<23, 59, 59>>, <<10, 20, 30>>},
        p \in {SecondOffset, HalfMinuteOffset, MinuteOfSeconds, DayBack}}
    \cup
    {<<ClockAt(15, m, 2023, 10, 20, 30), p>> :
        m \in {1, 6, 12}, p \in {MonthsForward, MonthsBack}}

CalendarInit ==
    /\ next = [s \in Slots |-> s - 1]
    /\ message_queue = NULL
    /\ free_queue = MESSAGE_QUEUE_SIZE
    /\ slot = [s \in Slots |-> FreshSlot]
    /\ message_queue_cri_sec = FALSE
    /\ free_queue_cri_sec = FALSE
    /\ \E in \in CalendarInputs :
          /\ rtc = in[1]
          /\ receive = [port |-> SYSTEM_PORT,
                        header |-> EncodeHeader(create_message_timestamp(in[1]), FALSE, 0,
                                                MAX_CONTENT_LENGTH),
                        payload |-> in[2]]
    /\ now = 0
    /\ skip_first_received_messages = FALSE
    /\ failed_send_packet_count = 0
    /\ phase = "calendar"
    /\ pc = "sync_add"
    /\ message = NULL
    /\ next_message = NULL
    /\ td_result = TRUE
    /\ arg_message = NULL
    /\ cleanup_ret = "none"
    /\ current_time = NoTime
    /\ machine_reset_calls = <<>>
    /\ daily_task_runs = 0
    /\ consecutive_failures = 0

\* What a step of sync_time_on_timestamp leaves alone besides the clock.
SyncFrame ==
    UNCHANGED <<listVars, slot, lockVars, skip_first_received_messages,
                failed_send_packet_count, phase, tdLocals, callVars, receive, envVars,
                machine_reset_calls, consecutive_failures>>

\* Lines 403-413.
SyncAdd ==
    /\ pc = "sync_add"
    /\ current_time' = AddOffsets(rtc, receive.payload)
    /\ pc' = "sync_loop0"
    /\ UNCHANGED rtc
    /\ SyncFrame

\* The position before the pass of the loop for component i, and after the
\* last pass the position before line 439.
LoopPc(i) ==
    CASE i = 0 -> "sync_loop0"
      [] i = 1 -> "sync_loop1"
      [] i = 2 -> "sync_loop2"
      [] i = 3 -> "sync_loop3"
      [] i = 4 -> "sync_loop4"
      [] OTHER -> "sync_dow"

\* Lines 424-436: one pass of the loop.
SyncNormalize(i) ==
    /\ pc = LoopPc(i)
    /\ IF OutsideMonthTable(i, current_time.month)
       THEN \E lmax \in Int8Values :
               current_time' = NormalizeWithLimit(current_time, i, lmax)
       ELSE current_time' = NormalizeStep(current_time, i)
    /\ pc' = LoopPc(i + 1)
    /\ UNCHANGED rtc
    /\ SyncFrame

\* Line 439.
SyncDow ==
    /\ pc = "sync_dow"
    /\ current_time' = WithDow(current_time)
    /\ pc' = "sync_set"
    /\ UNCHANGED rtc
    /\ SyncFrame

\* Line 452.
SyncSet ==
    /\ pc = "sync_set"
    /\ rtc' = rtc_set_datetime(rtc, current_time)
    /\ pc' = "sync_done"
    /\ UNCHANGED current_time
    /\ SyncFrame

CalendarNext ==
    \/ SyncAdd
    \/ \E i \in 0..4 : SyncNormalize(i)
    \/ SyncDow
    \/ SyncSet

CalendarSpec == CalendarInit /\ [][CalendarNext]_vars

\* The system of Spec with one slot more in the pool, one GPIO line and the
\* monotonic clock standing still.
LargerPool == MESSAGE_QUEUE_SIZE + 1

LargerPoolInit ==
    /\ next = [s \in 1..LargerPool |-> s - 1]
    /\ message_queue = NULL
    /\ free_queue = LargerPool
    /\ slot = [s \in 1..LargerPool |-> FreshSlot]
    /\ message_queue_cri_sec = FALSE
    /\ free_queue_cri_sec = FALSE
    /\ rtc = InitialTime
    /\ now = 0
    /\ skip_first_received_messages = TRUE
    /\ failed_send_packet_count = 0
    /\ phase = "sync1"
    /\ pc = "create"
    /\ message = NULL
    /\ next_message = NULL
    /\ td_result = TRUE
    /\ arg_message = NULL
    /\ cleanup_ret = "none"
    /\ receive = NoDatagram
    /\ current_time = NoTime
    /\ machine_reset_calls = <<>>
    /\ daily_task_runs = 0
    /\ consecutive_failures = 0

LargerPoolNext ==
    \/ Create
    \/ Cleanup
    \/ Transfer
    \/ TdReceive
    \/ Service
    \/ HandleGpioIrqs(0)

LargerPoolSpec == LargerPoolInit /\ [][LargerPoolNext]_vars

(***************************************************************************)
(* Properties                                                              *)
(***************************************************************************)

CleanupPcs == {"cleanup", "cleanup_mq_exit", "cleanup_release", "cleanup_fq_exit"}

CreatePcs == {"create_pop", "create_fq_exit", "create_fill", "create_mq_exit"}

\* The main context is between two list operations and has not halted.
Quiescent == ~Halted /\ pc \notin CleanupPcs /\ pc \notin CreatePcs

\* The walk from head meets no slot twice.
NoDup(head) == Len(Chain(next, head)) = Cardinality(Members(next, head))

\* The (port, timestamp, guaranteed, type) tuple of a stored message and of
\* the datagram in the receive buffer.
Tuple(s) ==
    <<slot[s].f_port, HeaderTimestamp(slot[s].header), slot[s].guaranteed_delivery,
      slot[s].type>>

ReceiveTuple ==
    <<receive.port, HeaderTimestamp(receive.header), HeaderGuaranteed(receive.header),
      HeaderType(receive.header)>>

\* C1 (as stated; the code violates it).  Pool conservation: at every
\* quiescent point the slots reachable from the pending list and those
\* reachable from the free list are disjoint, no list holds a slot twice,
\* and together they are the MESSAGE_QUEUE_SIZE slots of the pool.
C1_PoolConservation ==
    Quiescent =>
        /\ Pending \cap Free = {}
        /\ NoDup(message_queue)
        /\ NoDup(free_queue)
        /\ Cardinality(Pending \cup Free) = MESSAGE_QUEUE_SIZE

\* C2 (as stated; the code violates it).  At every instant each slot is a
\* member of exactly one of the two lists, or a lock is held.
C2_ExactlyOneListOrLocked ==
    \A s \in Slots :
        \/ (s \in Pending) # (s \in Free)
        \/ message_queue_cri_sec
        \/ free_queue_cri_sec

\* C3 (as stated; the code violates it).  When transfer_data has attempted to
\* transmit a non-guaranteed message, that message is out of the pending list
\* and back in the free list once the attempt is over, whether the send
\* failed (transfer_data returns false) or succeeded (line 553 is reached).
C3_NonGuaranteedRemovedAfterAttempt ==
    (/\ \/ pc = "td_ret" /\ ~td_result
        \/ pc = "td_sent"
     /\ message \in Slots
     /\ slot[message].used
     /\ ~slot[message].guaranteed_delivery)
    => (message \notin Pending /\ message \in Free)

\* C4 (as stated; the code violates it).  A guaranteed message leaves the
\* pending list only in the removal of the message that
\* match_message_by_header returned for a received response (the sweep of
\* scheduled_daily_tasks removes nothing): never in a step of a transmit
\* attempt.
C4_GuaranteedLeavesOnlyByMatch ==
    [][\A s \in Slots :
          (/\ s \in Pending
           /\ slot[s].used
           /\ slot[s].guaranteed_delivery
           /\ s \notin Pending')
          => (pc = "cleanup" /\ cleanup_ret = "td_dispatch" /\ arg_message = s)]_vars

\* C5 (as stated; the code violates it).  With a second message of a
\* different tuple in the pending list, the removal of the message matched
\* to the received response takes exactly that message out of the pending
\* list and leaves every other message in it.
C5_MatchRemovesExactlyTheMatch ==
    [][(/\ pc = "cleanup"
        /\ cleanup_ret = "td_dispatch"
        /\ pc' = "cleanup_mq_exit"
        /\ \E s \in Pending \ {arg_message} : Tuple(s) # ReceiveTuple)
       => (/\ arg_message \in Pending
           /\ Tuple(arg_message) = ReceiveTuple
           /\ arg_message \notin Pending'
           /\ \A s \in Pending \ {arg_message} : s \in Pending')]_vars

\* C6.  A create_message_entry call that finds the free list empty calls
\* machine_reset, once; it hands out no slot and leaves both lists and every
\* slot as they were.  machine_reset is called at most once in a run, and a
\* reset charged to create_message_entry happens only with the free list
\* empty.
C6_ExhaustionResetsOnce ==
    /\ [](Len(machine_reset_calls) <= 1)
    /\ [][(pc = "create" /\ free_queue = NULL /\ pc' # pc)
          => (/\ machine_reset_calls' = <<"create_message_entry">>
              /\ pc' = "reset"
              /\ UNCHANGED <<listVars, slot, arg_message>>)]_vars
    /\ [][(machine_reset_calls' # machine_reset_calls
           /\ machine_reset_calls' = <<"create_message_entry">>)
          => (free_queue = NULL /\ UNCHANGED <<listVars, slot, arg_message>>)]_vars

\* C6: the main context's create_message_entry has found the free list empty
\* and reset the machine.
C6_Witness ==
    /\ pc = "reset"
    /\ machine_reset_calls = <<"create_message_entry">>
    /\ free_queue = NULL
    /\ Pending = Slots
    /\ phase # "service"

\* The counter is compared between transmit attempts: everywhere but between
\* a successful send (line 535) and the assignment of line 554.
BetweenAttempts ==
    \/ pc \in {"create", "td_entry", "td_visit", "td_listen", "td_dispatch", "td_ret",
               "service"}
    \/ pc \in CreatePcs
    \/ pc \in CleanupPcs /\ cleanup_ret = "td_dispatch"

\* C7.  failed_send_packet_count is the number of failed transmit attempts
\* since the last successful one.  A delivery cycle that starts with the
\* counter above 5 resets the machine and transmits nothing; transfer_data
\* resets the machine in no other case.
C7_ConsecutiveFailureCounter ==
    /\ [](BetweenAttempts => failed_send_packet_count = consecutive_failures)
    /\ [][(pc = "td_entry" /\ failed_send_packet_count > FAILED_SEND_LIMIT /\ pc' # pc)
          => (/\ pc' = "reset"
              /\ Len(machine_reset_calls') = 1
              /\ UNCHANGED <<listVars, slot, consecutive_failures,
                             failed_send_packet_count>>)]_vars
    /\ [][(machine_reset_calls' # machine_reset_calls
           /\ machine_reset_calls' = <<"transfer_data">>)
          => (/\ pc = "td_entry"
              /\ consecutive_failures > FAILED_SEND_LIMIT
              /\ failed_send_packet_count > FAILED_SEND_LIMIT)]_vars

\* C7: six sends in a row have failed and the next delivery cycle has reset
\* the machine.
C7_Witness ==
    /\ pc = "reset"
    /\ machine_reset_calls = <<"transfer_data">>
    /\ consecutive_failures = FAILED_SEND_LIMIT + 1
    /\ failed_send_packet_count = FAILED_SEND_LIMIT + 1

\* C8 (as stated; the code violates it).  A run of scheduled_daily_tasks
\* takes out of the pending list, and puts on the free list, exactly the
\* messages whose stored dow is (today's day of week + 2) mod 7, and keeps
\* the others in their order.
C8_SweepRemovesExpired ==
    [][daily_task_runs' # daily_task_runs
       => LET expired_dow == (rtc.dotw + 2) % 7
              pending == Chain(next, message_queue)
          IN  /\ Chain(next', message_queue')
                   = SelectSeq(pending, LAMBDA s : slot[s].dow # expired_dow)
              /\ \A s \in Pending : slot[s].dow = expired_dow => s \in Free']_vars

\* Slot s holds a guaranteed message of the day the sweep discards.
ExpiredGuaranteed(s) ==
    /\ s \in Pending
    /\ slot[s].used
    /\ slot[s].guaranteed_delivery
    /\ slot[s].dow = (rtc.dotw + 2) % 7

\* C9 (as stated; the code violates it).  With the timer firing again and
\* again, a guaranteed message of the day the sweep discards does not stay in
\* the pending list forever: it leaves the list, or the machine halts.
C9_ExpiredGuaranteedEventuallyRemoved ==
    \A s \in Slots : ExpiredGuaranteed(s) ~> (s \notin Pending \/ Halted)

\* C10.  skip_first_received_messages is true at start.  While it is true a
\* received datagram is dropped: nothing is matched or dispatched, and the
\* lists, the slots and the clock stay as they are.  The flag falls in a
\* listen window that times out, every such time-out leaves it false, and
\* once false it stays false.
C10_StartupDiscardWindow ==
    /\ skip_first_received_messages = TRUE
    /\ [](skip_first_received_messages
            => (pc # "td_dispatch" /\ cleanup_ret # "td_dispatch"))
    /\ [][(skip_first_received_messages /\ receive' # receive /\ receive' # NoDatagram)
          => UNCHANGED <<listVars, slot, rtc, pc, skip_first_received_messages>>]_vars
    /\ [][(skip_first_received_messages /\ ~skip_first_received_messages')
          => (pc = "td_listen" /\ pc' \in {"td_visit", "td_ret"})]_vars
    /\ [][(pc = "td_listen" /\ pc' \in {"td_visit", "td_ret"})
          => ~skip_first_received_messages']_vars
    /\ [][~skip_first_received_messages => ~skip_first_received_messages']_vars

\* C10: during the start-up window a time-sync response left over from an
\* earlier session, which matches the pending request, has been received and
\* dropped: the request is still pending and the clock still shows 2000.
C10_Witness ==
    /\ skip_first_received_messages
    /\ pc = "td_listen"
    /\ receive = StaleDatagram
    /\ match_message_by_header(HeaderVersion(receive.header), receive.port,
                               HeaderGuaranteed(receive.header),
                               HeaderType(receive.header),
                               HeaderTimestamp(receive.header)) # NULL
    /\ rtc.year = 2000

\* C11 (as stated; the code violates it).  transfer_data terminates: a listen
\* phase that has begun comes to its end, by a receipt or by a time-out, and
\* the walk goes on or transfer_data returns (or the machine halts).
C11_ListenPhaseEnds ==
    (pc = "td_listen" /\ ~skip_first_received_messages)
        ~> (pc \in {"td_visit", "td_ret"} \/ Halted)

\* C12 (as stated; the code violates it).  A failed send ends only that
\* message's turn: when another message follows it in the walk, the walk goes
\* on to that message within the same delivery cycle.
C12_FailedSendContinuesWalk ==
    [][(/\ pc = "td_visit"
        /\ failed_send_packet_count' = failed_send_packet_count + 1
        /\ message \in Pending
        /\ next[message] \in Pending)
       => (pc' = "td_visit" /\ message' = next[message])]_vars

\* C13 (as stated; the code violates it).  cleanup_message called with a slot
\* that is not in the pending list changes neither list and does not fault:
\* its search of the pending list ends without a fault and leaves the lists as
\* they were, and its release step, reached with a slot that is already free,
\* leaves the free list as it was.
C13_NonMemberCleanupIsNoOp ==
    [][/\ (pc = "cleanup" /\ arg_message # NULL /\ arg_message \notin Pending
                          /\ pc' # pc)
          => (pc' = "cleanup_mq_exit" /\ UNCHANGED listVars)
       /\ (pc = "cleanup_release" /\ arg_message \in Free /\ pc' # pc)
          => UNCHANGED listVars]_vars

C15_ContentLengthAtMostSeven ==
    /\ \A s \in Pending :
          /\ slot[s].used
          /\ slot[s].content_length \in 0..MAX_CONTENT_LENGTH
          /\ slot[s].header % 16 = slot[s].content_length
          /\ slot[s].f_port = SYSTEM_PORT => slot[s].content_length = MAX_CONTENT_LENGTH
    /\ pc \in {"td_visit", "td_sent"} =>
          /\ message # NULL
          /\ slot[message].used
          /\ 4 + slot[message].content_length \in 4..11

\* C16 (as stated; the code violates it).  For a valid date of the years 2000
\* to 2099, the value calculate_dow returns is the date's day of the week,
\* 0 for Sunday to 6 for Saturday.
C16_DayOfWeekCorrect ==
    (phase = "calendar" /\ pc = "sync_set" /\ ValidDate(current_time)) =>
        current_time.dotw
            = TrueDayOfWeek(current_time.day, current_time.month, current_time.year)

\* C17 (as stated; the code violates it).  With an all-zero offset, setting
\* the clock from a valid datetime of the years 2000 to 2099 leaves year,
\* month, day, hour, minute and second as they were and leaves the clock with
\* the true day of the week of that date.
C17_ZeroOffsetKeepsDatetime ==
    [][(/\ phase = "calendar"
        /\ pc = "sync_set"
        /\ pc' = "sync_done"
        /\ receive.payload = ZeroOffset
        /\ ValidDate(rtc))
       => /\ <<rtc'.year, rtc'.month, rtc'.day, rtc'.hour, rtc'.min, rtc'.sec>>
               = <<rtc.year, rtc.month, rtc.day, rtc.hour, rtc.min, rtc.sec>>
          /\ rtc'.dotw = TrueDayOfWeek(rtc.day, rtc.month, rtc.year)]_vars

\* C18.  When the added offset has brought the seconds to exactly 60, the
\* loop's pass for the seconds leaves them at 0 and the minute one higher than
\* it was, whatever the minute's own pass does afterwards.
C18_SixtySecondsCarry ==
    [][(phase = "calendar" /\ pc = "sync_loop0" /\ current_time.sec = 60)
       => (/\ pc' = "sync_loop1"
           /\ current_time'.sec = 0
           /\ current_time'.min = current_time.min + 1)]_vars

\* A clock at 59 seconds and an offset of one second: the pass for the seconds
\* has made them 0 and the minute one higher than the clock's.
C18_Witness ==
    /\ phase = "calendar"
    /\ pc = "sync_loop1"
    /\ rtc.sec = 59
    /\ receive.payload = SecondOffset
    /\ current_time.sec = 0
    /\ current_time.min = rtc.min + 1

\* C19 (as stated; the code violates it).  When the added offset has brought
\* the day of the month below 1, the loop's pass for the day takes one from
\* the month and adds to the day the length of the month borrowed into, the
\* one before (December before January), February counted by the year.
C19_DayBorrowUsesPreviousMonth ==
    [][(/\ phase = "calendar"
        /\ pc = "sync_loop3"
        /\ current_time.day < 1
        /\ current_time.month \in 1..12)
       => (/\ pc' = "sync_loop4"
           /\ current_time'.month = current_time.month - 1
           /\ current_time'.day
                 = current_time.day
                   + (IF current_time.month = 1 THEN 31
                      ELSE DaysInMonth(current_time.month - 1, current_time.year)))]_vars

C21_PopOnlyWhenNonEmpty ==
    [][(pc = "create_pop" /\ pc' # pc)
       => (/\ free_queue # NULL
           /\ arg_message' = free_queue
           /\ pc' = "create_fq_exit")]_vars

\* The positions of the main context inside transfer_data, from the entry of
\* the walk to its return: the transmit (td_visit), the stamp after it, the
\* listen wait and the dispatch of a received datagram.
TransferPcs == {"td_entry", "td_visit", "td_sent", "td_listen", "td_dispatch", "td_ret"}

\* C22.  The locks are never nested and never held across the walk:
\*   - the two locks are never held together, so no path requests one list's
\*     lock while holding the other's;
\*   - the pending list's lock is taken only by cleanup_message's first section
\*     and create_message_entry's last one, the free list's lock only by
\*     cleanup_message's second section (after the pending list's lock was
\*     released) and create_message_entry's first one;
\*   - no lock is held at the transmit, at the listen wait or anywhere else in
\*     the walk of transfer_data;
\*   - a context that is about to request a lock finds it free, so neither
\*     context waits for a lock the other holds.
C22_LocksNeverNested ==
    /\ [](~(message_queue_cri_sec /\ free_queue_cri_sec))
    /\ []((pc \in TransferPcs \/ pc = "service")
             => (~message_queue_cri_sec /\ ~free_queue_cri_sec))
    /\ []((pc \in {"cleanup", "create_fill"}) => ~message_queue_cri_sec)
    /\ []((pc \in {"cleanup_release", "create_pop"}) => ~free_queue_cri_sec)
    /\ [][(message_queue_cri_sec' /\ ~message_queue_cri_sec)
             => (pc \in {"cleanup", "create_fill"} /\ ~free_queue_cri_sec)]_vars
    /\ [][(free_queue_cri_sec' /\ ~free_queue_cri_sec)
             => (pc \in {"cleanup_release", "create_pop"} /\ ~message_queue_cri_sec)]_vars

\* C22 witness: cleanup_message holds the free list's lock for a message it has
\* unlinked from the pending list, whose lock it has released.
C22_Witness ==
    /\ pc = "cleanup_fq_exit"
    /\ free_queue_cri_sec
    /\ ~message_queue_cri_sec
    /\ arg_message \in Slots

\* The due test of line 502 on a slot that holds a created message.
Due(m) == (get_us_since_boot - slot[m].send_time) > MESSAGE_TIMEOUT_US

\* The ways the visit of a message ends with a transmit: the send fails and
\* transfer_data returns false, or it succeeds and the message is released or
\* stamped before the listen window.
TransmitOutcome ==
    \/ /\ pc' = "td_ret"
       /\ td_result' = FALSE
       /\ failed_send_packet_count' = failed_send_packet_count + 1
       /\ message' = message
    \/ /\ pc' \in {"cleanup", "td_sent"}
       /\ message' = message

\* The way the visit of a message ends without one: the walk goes on with the
\* successor, no counter changes, nothing is released and no listen window is
\* entered.
SkipOutcome ==
    /\ message' = next[message]
    /\ pc' = IF next[message] = NULL THEN "td_ret" ELSE "td_visit"
    /\ next[message] = NULL => td_result' = TRUE
    /\ UNCHANGED <<failed_send_packet_count, consecutive_failures, slot, listVars,
                   callVars>>

\* C23.  transfer_data transmits the message it visits exactly when
\* (now - send_time) > MESSAGE_TIMEOUT_US at the visit: a message with
\* send_time = 0 is transmitted by the visit, a message stamped at t is skipped
\* as long as no more than MESSAGE_TIMEOUT_US has elapsed since t, and a skip
\* transmits nothing and opens no listen window.
C23_TransmitExactlyWhenDue ==
    [][(TdVisit /\ slot[message].used)
          => /\ Due(message) => (TransmitOutcome /\ ~SkipOutcome)
             /\ ~Due(message) => (SkipOutcome /\ ~TransmitOutcome)
             /\ slot[message].send_time = 0 => TransmitOutcome
             /\ (/\ slot[message].send_time # 0
                 /\ get_us_since_boot - slot[message].send_time <= MESSAGE_TIMEOUT_US)
                   => SkipOutcome]_vars

\* C23 witness: the walk has skipped the head of the pending list, a guaranteed
\* message stamped by an earlier cycle and not yet due (a send in this cycle
\* would have reset the failure counter), and visits its successor.
C23_Witness ==
    /\ pc = "td_visit"
    /\ message_queue \in Slots
    /\ message = next[message_queue]
    /\ message # message_queue
    /\ slot[message_queue].used
    /\ slot[message_queue].guaranteed_delivery
    /\ slot[message_queue].send_time # 0
    /\ ~Due(message_queue)
    /\ failed_send_packet_count > 0

\* C24 (as stated; the code violates it).  The slot transfer_data tests and
\* transmits, and the slot it hands to cleanup_message after a send, is a
\* member of the pending list at that moment.
C24_WalkStaysInPendingList ==
    /\ pc = "td_visit" => message \in Pending
    /\ (pc = "cleanup" /\ cleanup_ret = "td_sent") => arg_message \in Pending

\* C25 (as stated; the code violates it).  transfer_data writes send_time
\* (line 556) only into a slot that is on the pending list, never into one it
\* has released to the free list.
C25_NoWriteAfterRelease ==
    [][TdSent => (message \in Pending /\ message \notin Free)]_vars

\* A datetime of the calendar: the time of day in range, the month in 1..12
\* and the day one the month of that year has.
CalendarDatetime(t) ==
    /\ t.sec \in 0..59
    /\ t.min \in 0..59
    /\ t.hour \in 0..23
    /\ t.month \in 1..12
    /\ t.day \in 1..DaysInMonth(t.month, t.year)

\* C26 (as stated; the code violates it).  For a valid clock and a response
\* whose offsets are each smaller than the component's modulus, with none for
\* the year, the datetime sync_time_on_timestamp hands to rtc_set_datetime, and
\* the clock after the call, is a datetime of the calendar.
C26_SyncedDatetimeIsValid ==
    /\ pc = "sync_set" => CalendarDatetime(current_time)
    /\ pc = "sync_done" => CalendarDatetime(rtc)

\* C27 (as stated; the code violates it).  Where sync_time_on_timestamp has a
\* table indexed by the month, the month is in 1..12: at the pass for the day,
\* whose limit getTimeComponentLimitMax reads from the days-per-month table,
\* and at calculate_dow, which reads month_key.
C27_MonthIndexInRange ==
    /\ pc = "sync_loop3" => current_time.month \in 1..12
    /\ pc = "sync_dow" => current_time.month \in 1..12

=============================================================================
